---- MODULE Spec2Model ----
(***************************************************************************)
(* goexch: the token-bucket RateLimiter (ratelimiter.go) and the request   *)
(* path of the API client that consults it (client.go).                    *)
(*                                                                         *)
(* Time is the value of time.Now(), counted in clock units; Go's monotonic *)
(* clock reading makes now.Sub(last) non-negative, so the clock only moves *)
(* forward.  Callers are goroutines; every statement of Allow between      *)
(* Lock and the deferred Unlock is a step of its own.                      *)
(*                                                                         *)
(* Spec is a program that uses one RateLimiter directly; SpecClient is a   *)
(* program that uses a Client and its eight API methods, where a call of   *)
(* Allow, serialized by the mutex, is one step.  Both programs may pass    *)
(* any arguments to the constructor, which checks none.                    *)
(***************************************************************************)
EXTENDS Integers, Sequences, FiniteSets

\* ---- bounds of the model ----
NumProcs == 2
MaxCalls == 4
MaxTime == 3
MaxCap == 2
MaxInterval == 2
MaxLimiters == 2
MaxApiCalls == 3
MaxClientTime == 1

\* the goroutines of the program that uses the limiter directly, and the
\* goroutine of the program that uses the client: its calls of Allow are
\* whole steps, which concurrent callers could only put in some order
Callers == 1..NumProcs
Clients == {1}
Procs == Callers \cup Clients
\* arguments a caller may pass: the code accepts every int / time.Duration
CapArgs == -1..MaxCap
IntervalArgs == -1..MaxInterval
\* the arguments the client program passes to Client.RateLimiter: one pair
\* the documented contract allows, one with capacity < 1 and one with
\* refillInterval <= 0
ClientArgs == {<<1, 1>>, <<0, 1>>, <<1, 0>>}

VARIABLES
    clock,        \* time.Now()
    heap,         \* the RateLimiter objects allocated so far
    rateLimiter,  \* Client.rateLimiter: 0 is nil, else an index of heap
    pc,           \* where each goroutine is
    mode,         \* what the goroutine called: "Allow" or an API method
    rl,           \* the receiver of the Allow call a goroutine is in
    now,          \* Allow's local variable now
    allowed,      \* what Allow returned to request in this call
    sent,         \* HTTP requests performed by this call
    req,          \* what request returned: status code and err
    ret,          \* the error the API method returned
    calls,        \* calls started so far
    crashed       \* a goroutine panicked: the program is gone

vars == <<clock, heap, rateLimiter, pc, mode, rl, now, allowed, sent, req, ret,
          calls, crashed>>

\* the locals of the client's call path
callVars == <<allowed, sent, req, ret>>

Nil == 0

\* ---- ratelimiter.go ----

\* NewRateLimiter: no argument is checked.  created, log, generated and
\* requests are history fields: the construction time, the decisions of
\* Allow in lock order, the tokens the refills have added so far, before
\* capping, and the HTTP requests of the calls that went through this
\* limiter.
NewRateLimiter(max, interval, t) ==
    [tokens |-> max, max |-> max, interval |-> interval, last |-> t,
     mu |-> FALSE, created |-> t, log |-> <<>>, generated |-> 0, requests |-> 0]

\* Go's integer division truncates toward zero
TruncDiv(a, b) ==
    LET abs(x) == IF x < 0 THEN -x ELSE x
        q == abs(a) \div abs(b)
    IN IF (a < 0) = (b < 0) THEN q ELSE -q

GeneratedNoDivision(elapsed, interval) == elapsed

GeneratedRoundedUp(elapsed, interval) == TruncDiv(elapsed + interval - 1, interval)

\* int(elapsed / rl.interval)
Generated(elapsed, interval) == TruncDiv(elapsed, interval)

KeepLast(last, t) == last

\* rl.last = now
NextLast(last, t) == t

RefilledNoCap(tokens, n, max) == tokens + n

\* rl.tokens += n; if rl.tokens > rl.max { rl.tokens = rl.max }
Refilled(tokens, n, max) ==
    IF tokens + n > max THEN max ELSE tokens + n

\* if rl.tokens > 0
HasToken(tokens) == tokens > 0

ConsumeNothing(tokens) == tokens

\* rl.tokens--
Consume(tokens) == tokens - 1

CanLockAlways(l) == TRUE

\* rl.mu.Lock() returns only when the mutex is free
CanLock(l) == ~l.mu

Entry(t, res, post) == [t |-> t, res |-> res, post |-> post]

\* a whole call of Allow that reads the clock at t: the result and the
\* limiter it leaves
Allow(l, t) ==
    LET read == [l EXCEPT !.last = NextLast(l.last, t)]
        tokens == Refilled(l.tokens, Generated(t - l.last, l.interval), l.max)
        res == IF l.interval = 0 THEN "panic"
               ELSE IF HasToken(tokens) THEN "true" ELSE "false"
        left == IF res = "panic" THEN l.tokens
                ELSE IF res = "true" THEN Consume(tokens) ELSE tokens
        made == IF res = "panic" THEN 0 ELSE Generated(t - l.last, l.interval)
    IN [res |-> res,
        l |-> [read EXCEPT !.tokens = left, !.generated = l.generated + made,
                           !.log = Append(l.log, Entry(t, res, left))]]

\* ---- client.go ----

Methods == {"Order", "GetOrder", "Refund", "ConfirmRefund",
            "RevalidateAddress", "Remove", "Volume", "Status"}

\* the methods that take arguments and reject empty ones
Checked == Methods \ {"Volume", "Status"}

\* an error value: id is the identity of the value (what == and errors.Is
\* compare, none of these errors wraps another), msg is Error()
NoError == [id |-> "nil", msg |-> ""]

\* var RateLimitExceeded = errors.New("rate limit exceeded, please wait")
RateLimitExceeded == [id |-> "RateLimitExceeded", msg |-> "rate limit exceeded, please wait"]

\* the errors of http.DefaultClient.Do and io.ReadAll
TransportError == [id |-> "transport", msg |-> "transport"]

\* fmt.Errorf(format, ...) without %w: a new error value carrying only text
Errorf(msg) == [id |-> "fmt.Errorf", msg |-> msg]

\* the format each method puts in front of the error of request
Prefix(m) ==
    IF m \in {"RevalidateAddress", "Remove"} THEN "error making request: "
    ELSE "request error: "

\* if err != nil { return nil, ... } after c.request
RequestError(m, err) ==
    IF m \in {"Volume", "Status"} THEN err ELSE Errorf(Prefix(m) \o err.msg)

\* the error for missing arguments
ArgumentError(m) ==
    Errorf(CASE m = "Order" -> "from, to, and address are required"
             [] m = "RevalidateAddress" -> "id and address are required"
             [] m = "Remove" -> "order id is empty"
             [] OTHER -> "id is required")

NoReturn == [status |-> 0, err |-> NoError]

GateNextClosed(ptr) == IF ptr # Nil THEN "lock" ELSE "denied"

\* if c.rateLimiter != nil { if !c.rateLimiter.Allow() ... }
GateNext(ptr) == IF ptr # Nil THEN "lock" ELSE "send"

AfterAllowIgnored(m, res) == IF m = "Allow" THEN "idle" ELSE "send"

\* where the caller of Allow goes on: on false request returns
\* RateLimitExceeded and the method returns, on true request builds the
\* HTTP request
AfterAllow(m, res) ==
    IF m = "Allow" THEN "idle"
    ELSE IF res THEN "send" ELSE "done"

\* what request returns when Allow said res (nothing yet on true)
DeniedReturn(m, res) ==
    IF m # "Allow" /\ ~res THEN [status |-> 0, err |-> RateLimitExceeded]
    ELSE NoReturn

\* what the method returns when Allow said false
DeniedError(m) ==
    IF m = "Allow" THEN NoError ELSE RequestError(m, RateLimitExceeded)

\* what the caller keeps of Allow's result
Answer(m, res) ==
    IF m = "Allow" THEN "none" ELSE IF res THEN "true" ELSE "false"

GateBeforeCheck(argsOK, ptr) ==
    IF argsOK \/ ptr # Nil THEN GateNext(ptr) ELSE "invalid"

\* a method checks its arguments and only then calls c.request, whose
\* first statement is the gate
Gate(argsOK, ptr) ==
    IF argsOK THEN GateNext(ptr) ELSE "invalid"

TokensReturned(tokens, r) ==
    IF r.err # NoError \/ r.status # 200 THEN tokens + 1 ELSE tokens

\* the tokens of the limiter after request got r from the HTTP exchange:
\* nothing after the gate refers to c.rateLimiter
TokensAfter(tokens, r) == tokens

\* ---- steps of Allow ----

\* a goroutine calls Allow on the limiter it holds
CallAllow(p) ==
    /\ ~crashed
    /\ pc[p] = "idle"
    /\ calls < MaxCalls
    /\ Len(heap) >= 1
    /\ rl' = [rl EXCEPT ![p] = 1]
    /\ mode' = [mode EXCEPT ![p] = "Allow"]
    /\ pc' = [pc EXCEPT ![p] = "lock"]
    /\ calls' = calls + 1
    /\ UNCHANGED <<clock, heap, rateLimiter, now, callVars, crashed>>

\* rl.mu.Lock(); defer rl.mu.Unlock()
Lock(p) ==
    /\ ~crashed
    /\ pc[p] = "lock"
    /\ CanLock(heap[rl[p]])
    /\ heap' = [heap EXCEPT ![rl[p]].mu = TRUE]
    /\ pc' = [pc EXCEPT ![p] = "now"]
    /\ UNCHANGED <<clock, rateLimiter, mode, rl, now, callVars, calls, crashed>>

\* now := time.Now()
ReadClock(p) ==
    /\ ~crashed
    /\ pc[p] = "now"
    /\ now' = [now EXCEPT ![p] = clock]
    /\ pc' = [pc EXCEPT ![p] = "refill"]
    /\ UNCHANGED <<clock, heap, rateLimiter, mode, rl, callVars, calls, crashed>>

\* elapsed := now.Sub(rl.last); rl.last = now; rl.tokens += ...; cap.
\* A zero interval makes the division panic after last was written; the
\* deferred Unlock runs and the panic ends the program.
Refill(p) ==
    /\ ~crashed
    /\ pc[p] = "refill"
    /\ LET l == heap[rl[p]]
           elapsed == now[p] - l.last
       IN IF l.interval = 0
          THEN /\ heap' = [heap EXCEPT ![rl[p]] =
                      [l EXCEPT !.last = NextLast(l.last, now[p]), !.mu = FALSE,
                                !.log = Append(l.log, Entry(now[p], "panic", l.tokens))]]
               /\ pc' = [pc EXCEPT ![p] = "panic"]
               /\ crashed' = TRUE
          ELSE /\ heap' = [heap EXCEPT ![rl[p]] =
                      [l EXCEPT !.last = NextLast(l.last, now[p]),
                                !.tokens = Refilled(l.tokens, Generated(elapsed, l.interval), l.max),
                                !.generated = l.generated + Generated(elapsed, l.interval)]]
               /\ pc' = [pc EXCEPT ![p] = "check"]
               /\ UNCHANGED crashed
    /\ UNCHANGED <<clock, rateLimiter, mode, rl, now, callVars, calls>>

\* if rl.tokens > 0 { ... } return false
Check(p) ==
    /\ ~crashed
    /\ pc[p] = "check"
    /\ LET l == heap[rl[p]]
       IN IF HasToken(l.tokens)
          THEN /\ pc' = [pc EXCEPT ![p] = "take"]
               /\ UNCHANGED <<heap, allowed, req, ret>>
          ELSE /\ heap' = [heap EXCEPT ![rl[p]] =
                      [l EXCEPT !.mu = FALSE,
                                !.log = Append(l.log, Entry(now[p], "false", l.tokens))]]
               /\ pc' = [pc EXCEPT ![p] = AfterAllow(mode[p], FALSE)]
               /\ allowed' = [allowed EXCEPT ![p] = Answer(mode[p], FALSE)]
               /\ req' = [req EXCEPT ![p] = DeniedReturn(mode[p], FALSE)]
               /\ ret' = [ret EXCEPT ![p] = DeniedError(mode[p])]
    /\ UNCHANGED <<clock, rateLimiter, mode, rl, now, sent, calls, crashed>>

\* rl.tokens--; return true
Take(p) ==
    /\ ~crashed
    /\ pc[p] = "take"
    /\ LET l == heap[rl[p]]
           left == Consume(l.tokens)
       IN heap' = [heap EXCEPT ![rl[p]] =
                      [l EXCEPT !.tokens = left, !.mu = FALSE,
                                !.log = Append(l.log, Entry(now[p], "true", left))]]
    /\ pc' = [pc EXCEPT ![p] = AfterAllow(mode[p], TRUE)]
    /\ allowed' = [allowed EXCEPT ![p] = Answer(mode[p], TRUE)]
    /\ req' = [req EXCEPT ![p] = DeniedReturn(mode[p], TRUE)]
    /\ UNCHANGED <<clock, rateLimiter, mode, rl, now, sent, ret, calls, crashed>>

\* time passes
Tick(limit) ==
    /\ ~crashed
    /\ clock < limit
    /\ clock' = clock + 1
    /\ UNCHANGED <<heap, rateLimiter, pc, mode, rl, now, callVars, calls, crashed>>

\* ---- steps of the client ----

ConfigureKeepsBudget(max, interval) ==
    /\ ~crashed
    /\ Len(heap) < MaxLimiters
    /\ heap' = Append(heap, [NewRateLimiter(max, interval, clock) EXCEPT
                    !.tokens = IF rateLimiter # Nil /\ heap[rateLimiter].tokens < max
                               THEN heap[rateLimiter].tokens ELSE max])
    /\ rateLimiter' = Len(heap) + 1
    /\ UNCHANGED <<clock, pc, mode, rl, now, callVars, calls, crashed>>

\* Client.RateLimiter(max, interval): a new limiter replaces the old one
Configure(max, interval) ==
    /\ ~crashed
    /\ Len(heap) < MaxLimiters
    /\ heap' = Append(heap, NewRateLimiter(max, interval, clock))
    /\ rateLimiter' = Len(heap) + 1
    /\ UNCHANGED <<clock, pc, mode, rl, now, callVars, calls, crashed>>

\* the error a method returns for what request returned and for whether
\* json.Unmarshal succeeds on the body
MethodError(m, r, decodes) ==
    IF r.err # NoError THEN RequestError(m, r.err)
    ELSE IF r.status # 200 THEN Errorf("status")
    ELSE IF ~decodes THEN Errorf("unmarshal")
    ELSE NoError

\* a goroutine calls API method m; argsOK says the required arguments are
\* not empty.  Gate gives the order: the argument check comes first; then
\* request looks at c.rateLimiter and calls Allow, which runs under the
\* limiter's mutex from Lock to the deferred Unlock and is taken here as
\* one step.  A call whose arguments are rejected returns ArgumentError
\* wherever in that order the check stands.
ApiCall(p, m, argsOK) ==
    /\ ~crashed
    /\ pc[p] = "idle"
    /\ calls < MaxApiCalls
    /\ (m \notin Checked) => argsOK
    /\ mode' = [mode EXCEPT ![p] = m]
    /\ calls' = calls + 1
    /\ LET g == Gate(argsOK, rateLimiter)
           denied == [status |-> 0, err |-> RateLimitExceeded]
       IN CASE g = "invalid" ->
                /\ pc' = [pc EXCEPT ![p] = "done"]
                /\ ret' = [ret EXCEPT ![p] = ArgumentError(m)]
                /\ UNCHANGED <<heap, rl, allowed, req, crashed>>
            [] g = "send" ->
                /\ pc' = [pc EXCEPT ![p] = "send"]
                /\ UNCHANGED <<heap, rl, allowed, req, ret, crashed>>
            [] g = "denied" ->
                /\ pc' = [pc EXCEPT ![p] = "done"]
                /\ req' = [req EXCEPT ![p] = denied]
                /\ ret' = [ret EXCEPT ![p] = MethodError(m, denied, TRUE)]
                /\ UNCHANGED <<heap, rl, allowed, crashed>>
            [] OTHER ->
                LET l == heap[rateLimiter]
                    a == Allow(l, clock)
                IN /\ CanLock(l)
                   /\ heap' = [heap EXCEPT ![rateLimiter] = a.l]
                   /\ rl' = [rl EXCEPT ![p] = rateLimiter]
                   /\ IF a.res = "panic"
                      THEN /\ pc' = [pc EXCEPT ![p] = "panic"]
                           /\ crashed' = TRUE
                           /\ UNCHANGED <<allowed, req, ret>>
                      ELSE IF ~argsOK
                      THEN /\ pc' = [pc EXCEPT ![p] = "done"]
                           /\ allowed' = [allowed EXCEPT ![p] = Answer(m, a.res = "true")]
                           /\ ret' = [ret EXCEPT ![p] = ArgumentError(m)]
                           /\ UNCHANGED <<req, crashed>>
                      ELSE /\ pc' = [pc EXCEPT ![p] = AfterAllow(m, a.res = "true")]
                           /\ allowed' = [allowed EXCEPT ![p] = Answer(m, a.res = "true")]
                           /\ req' = [req EXCEPT ![p] = DeniedReturn(m, a.res = "true")]
                           /\ ret' = [ret EXCEPT ![p] =
                                         IF a.res = "true" THEN NoError ELSE DeniedError(m)]
                           /\ UNCHANGED crashed
    /\ UNCHANGED <<clock, rateLimiter, now, sent>>

\* request: http.NewRequest, http.DefaultClient.Do, io.ReadAll, and the
\* method's handling of what request returns.  The server and the network
\* choose the outcome.
Send(p, outcome, decodes) ==
    /\ ~crashed
    /\ pc[p] = "send"
    /\ LET r == CASE outcome = "error" -> [status |-> 0, err |-> TransportError]
                  [] outcome = "ok" -> [status |-> 200, err |-> NoError]
                  [] OTHER -> [status |-> 500, err |-> NoError]
       IN /\ req' = [req EXCEPT ![p] = r]
          /\ ret' = [ret EXCEPT ![p] = MethodError(mode[p], r, decodes)]
          /\ heap' = IF rl[p] = Nil THEN heap
                     ELSE [heap EXCEPT ![rl[p]] =
                              [@ EXCEPT !.requests = @ + 1,
                                        !.tokens = TokensAfter(@, r)]]
    /\ sent' = [sent EXCEPT ![p] = sent[p] + 1]
    /\ pc' = [pc EXCEPT ![p] = "done"]
    /\ UNCHANGED <<clock, rateLimiter, mode, rl, now, allowed, calls, crashed>>

\* the caller has its answer; the locals of the call are gone
Return(p) ==
    /\ ~crashed
    /\ pc[p] = "done"
    /\ pc' = [pc EXCEPT ![p] = "idle"]
    /\ allowed' = [allowed EXCEPT ![p] = "none"]
    /\ sent' = [sent EXCEPT ![p] = 0]
    /\ req' = [req EXCEPT ![p] = NoReturn]
    /\ ret' = [ret EXCEPT ![p] = NoError]
    /\ rl' = [rl EXCEPT ![p] = Nil]
    /\ mode' = [mode EXCEPT ![p] = "Allow"]
    /\ UNCHANGED <<clock, heap, rateLimiter, now, calls, crashed>>

\* ---- the two programs ----

Idle ==
    /\ clock = 0
    /\ pc = [p \in Procs |-> "idle"]
    /\ mode = [p \in Procs |-> "Allow"]
    /\ rl = [p \in Procs |-> Nil]
    /\ now = [p \in Procs |-> 0]
    /\ allowed = [p \in Procs |-> "none"]
    /\ sent = [p \in Procs |-> 0]
    /\ req = [p \in Procs |-> NoReturn]
    /\ ret = [p \in Procs |-> NoError]
    /\ calls = 0
    /\ crashed = FALSE

\* a program that built one limiter with NewRateLimiter(max, interval)
Init ==
    /\ Idle
    /\ \E max \in CapArgs, interval \in IntervalArgs :
           heap = <<NewRateLimiter(max, interval, 0)>>
    /\ rateLimiter = Nil

AllowStep ==
    \/ \E p \in Procs : Lock(p)
    \/ \E p \in Procs : ReadClock(p)
    \/ \E p \in Procs : Refill(p)
    \/ \E p \in Procs : Check(p)
    \/ \E p \in Procs : Take(p)

Next ==
    \/ Tick(MaxTime)
    \/ \E p \in Callers : CallAllow(p)
    \/ AllowStep

Spec == Init /\ [][Next]_vars

\* New(key): rateLimiter: nil
InitClient ==
    /\ Idle
    /\ heap = <<>>
    /\ rateLimiter = Nil

NextClient ==
    \/ Tick(MaxClientTime)
    \/ \E a \in ClientArgs : Configure(a[1], a[2])
    \/ \E p \in Clients, m \in Methods, argsOK \in BOOLEAN : ApiCall(p, m, argsOK)
    \/ \E p \in Clients, outcome \in {"error", "ok", "status"}, decodes \in BOOLEAN :
           Send(p, outcome, decodes)
    \/ \E p \in Clients : Return(p)

SpecClient == InitClient /\ [][NextClient]_vars

\* ---- properties of the limiter ----

\* the limiter is one the documented contract allows: capacity >= 1 and
\* refillInterval > 0
Valid(l) == l.max >= 1 /\ l.interval > 0

Min(a, b) == IF a < b THEN a ELSE b

AllIdle == \A p \in Procs : pc[p] = "idle"

CountRes(log, r) == Cardinality({n \in 1..Len(log) : log[n].res = r})

\* the read time of the a-th decision; the 0-th is the construction
TimeOf(l, a) == IF a = 0 THEN l.created ELSE l.log[a].t

\* decisions a+1..n were all made at the read time of decision a+1
Immediate(l, a, n) == \A j \in (a+1)..n : l.log[j].t = l.log[a+1].t

\* C1: a limiter built with C >= 1 and I > 0 whose clock has not advanced
\* since construction answers true to the first C calls of Allow and false
\* to call C+1.
CapacityBound ==
    \A i \in DOMAIN heap :
        LET l == heap[i] IN
        (l.max >= 1 /\ l.interval > 0) =>
            \A n \in 1..Len(l.log) :
                (l.log[1].t = l.created /\ Immediate(l, 0, n)) =>
                    /\ n <= l.max => l.log[n].res = "true"
                    /\ n = l.max + 1 => l.log[n].res = "false"

CapacityBoundWitness ==
    \E i \in DOMAIN heap :
        LET l == heap[i] IN
        /\ l.max >= 1 /\ l.interval > 0
        /\ Len(l.log) = l.max + 1
        /\ l.log[1].t = l.created /\ Immediate(l, 0, Len(l.log))
        /\ l.log[l.max].res = "true"
        /\ l.log[l.max + 1].res = "false"

\* C2: when N >= C calls of concurrent callers on one limiter of capacity
\* C have all returned and the clock has not advanced, exactly C of them
\* returned true and exactly N - C returned false.
ConcurrencySafety ==
    \A i \in DOMAIN heap :
        LET l == heap[i] IN
        (Valid(l) /\ AllIdle /\ clock = l.created /\ Len(l.log) >= l.max) =>
            /\ CountRes(l.log, "true") = l.max
            /\ CountRes(l.log, "false") = Len(l.log) - l.max

ConcurrencySafetyWitness ==
    \E i \in DOMAIN heap :
        LET l == heap[i] IN
        /\ Valid(l) /\ AllIdle /\ clock = l.created
        /\ Len(l.log) > l.max
        /\ CountRes(l.log, "true") = l.max
        /\ CountRes(l.log, "false") = Len(l.log) - l.max

\* C3: from tokens = 0 left by a call at time t, the calls made at time
\* t + k*I with no call in between return true exactly min(C, k) times and
\* then false.
RefillCorrectness ==
    \A i \in DOMAIN heap :
        LET l == heap[i] IN
            \A a \in 1..Len(l.log) : \A n \in (a+1)..Len(l.log) : \A k \in 0..MaxTime :
                (/\ l.log[a].post = 0
                 /\ l.log[a+1].t = l.log[a].t + k * l.interval
                 /\ Immediate(l, a, n)) =>
                    /\ n - a <= Min(l.max, k) => l.log[n].res = "true"
                    /\ n - a = Min(l.max, k) + 1 => l.log[n].res = "false"

RefillCorrectnessWitness ==
    \E i \in DOMAIN heap :
        LET l == heap[i] IN
        /\ Valid(l)
        /\ \E a \in 1..Len(l.log) : \E k \in 1..MaxTime :
            LET n == a + Min(l.max, k) + 1 IN
            /\ n <= Len(l.log)
            /\ l.log[a].post = 0
            /\ l.log[a+1].t = l.log[a].t + k * l.interval
            /\ Immediate(l, a, n)
            /\ l.log[n - 1].res = "true"
            /\ l.log[n].res = "false"

\* C4: in every state of every limiter 0 <= tokens <= capacity.
TokenBounds ==
    \A i \in DOMAIN heap : 0 <= heap[i].tokens /\ heap[i].tokens <= heap[i].max

\* C9: after an idle period of at least capacity * refillInterval without
\* a call, exactly capacity immediate calls return true and the next one
\* returns false.
BurstAfterIdle ==
    \A i \in DOMAIN heap :
        LET l == heap[i] IN
        Valid(l) =>
            \A a \in 0..Len(l.log) : \A n \in (a+1)..Len(l.log) :
                (/\ l.log[a+1].t - TimeOf(l, a) >= l.max * l.interval
                 /\ Immediate(l, a, n)) =>
                    /\ n - a <= l.max => l.log[n].res = "true"
                    /\ n - a = l.max + 1 => l.log[n].res = "false"

BurstAfterIdleWitness ==
    \E i \in DOMAIN heap :
        LET l == heap[i] IN
        /\ Valid(l)
        /\ \E a \in 1..Len(l.log) :
            LET n == a + l.max + 1 IN
            /\ n <= Len(l.log)
            /\ l.log[a].post = 0
            /\ l.log[a+1].t - l.log[a].t > l.max * l.interval
            /\ Immediate(l, a, n)
            /\ l.log[n - 1].res = "true"
            /\ l.log[n].res = "false"

\* the calls that returned true with a read time in [t1, t2]
Admitted(l, t1, t2) ==
    {n \in 1..Len(l.log) :
        l.log[n].res = "true" /\ t1 <= l.log[n].t /\ l.log[n].t <= t2}

\* C10: in any window [t1, t2] at most capacity + floor((t2 - t1) /
\* refillInterval) calls of Allow return true.
RateBound ==
    \A i \in DOMAIN heap :
        LET l == heap[i] IN
        Valid(l) =>
            \A t1 \in 0..MaxTime : \A t2 \in t1..MaxTime :
                Cardinality(Admitted(l, t1, t2)) <= l.max + ((t2 - t1) \div l.interval)

RateBoundWitness ==
    \E i \in DOMAIN heap :
        LET l == heap[i] IN
        /\ Valid(l)
        /\ \E t1 \in 0..MaxTime : \E t2 \in (t1+1)..MaxTime :
            /\ Cardinality(Admitted(l, t1, t2)) = l.max + ((t2 - t1) \div l.interval)
            /\ (t2 - t1) \div l.interval >= 1
            /\ CountRes(l.log, "false") >= 1

\* C11: no call of Allow on a constructed limiter fails or panics.
AllowTotal ==
    \A p \in Procs : pc[p] # "panic"

\* C12: from construction on, through every interleaving of Allow calls,
\* the stored last-refill time of a limiter never decreases from one state
\* to the next.
LastRefillMonotone ==
    [][\A i \in DOMAIN heap : heap'[i].last >= heap[i].last]_vars

LastRefillMonotoneWitness ==
    \E i \in DOMAIN heap :
        LET l == heap[i] IN
        /\ Len(l.log) >= 2
        /\ l.log[1].t < l.log[2].t
        /\ l.last > l.created
        /\ \E p \in Procs : pc[p] = "refill" /\ now[p] = l.last

\* decisions a+1..n were each read less than one interval after the
\* decision before
FastPolling(l, a, n) ==
    \A j \in (a+1)..n : l.log[j].t - l.log[j-1].t < l.interval

\* C17: on a limiter left with no token, as long as every call of Allow
\* reads the clock less than refillInterval after the call before it,
\* every such call returns false, whatever time has passed in total.
Starvation ==
    \A i \in DOMAIN heap :
        LET l == heap[i] IN
        \A a \in 1..Len(l.log) : \A n \in (a+1)..Len(l.log) :
            (l.log[a].post = 0 /\ FastPolling(l, a, n)) => l.log[n].res = "false"

StarvationWitness ==
    \E i \in DOMAIN heap :
        LET l == heap[i] IN
        \E a \in 1..Len(l.log) : \E n \in (a+1)..Len(l.log) :
            /\ l.max >= 1
            /\ l.log[a].post = 0
            /\ FastPolling(l, a, n)
            /\ l.log[n].t - l.log[a].t >= l.interval
            /\ l.log[n].res = "false"

\* the tokens a limiter holds before its n-th decision refills
Before(l, n) == IF n = 1 THEN l.max ELSE l.log[n-1].post

\* C13: each call of Allow adds floor((now - lastRefill) / refillInterval)
\* tokens before capping, where lastRefill is the read time of the call
\* before it (the construction time for the first call); the remainder of
\* the elapsed time is dropped and not carried to the next call.
WholeIntervalRefill ==
    \A i \in DOMAIN heap :
        LET l == heap[i] IN
        Valid(l) =>
            \A n \in 1..Len(l.log) :
                LET elapsed == l.log[n].t - TimeOf(l, n-1)
                    have == Min(l.max, Before(l, n) + (elapsed \div l.interval))
                IN /\ l.log[n].res = IF have > 0 THEN "true" ELSE "false"
                   /\ l.log[n].post = IF have > 0 THEN have - 1 ELSE have

\* one and a half intervals after the limiter was exhausted one call is
\* admitted and the next one denied, and half an interval later, two whole
\* intervals after the exhaustion, a call is denied again
WholeIntervalRefillWitness ==
    \E i \in DOMAIN heap :
        LET l == heap[i] IN
        /\ Valid(l)
        /\ \E a \in 1..Len(l.log) :
            /\ a + 2 <= Len(l.log)
            /\ l.log[a].post = 0
            /\ l.log[a+1].t - l.log[a].t > l.interval
            /\ l.log[a+1].t - l.log[a].t < 2 * l.interval
            /\ l.log[a+1].res = "true"
            /\ l.log[a+2].res = "false"
            /\ l.max >= 2 \/ l.log[a+2].t - l.log[a].t >= 2 * l.interval

\* C14: every call of Allow, admitted or denied, leaves lastRefill at the
\* time it read, and the tokens the refills generated, before capping,
\* from the construction at t0 up to a call at time t number at most
\* floor((t - t0) / refillInterval).
NoDoubleCounting ==
    \A i \in DOMAIN heap :
        LET l == heap[i]
            n == Len(l.log)
        IN (n >= 1 /\ ~l.mu) =>
            /\ l.last = l.log[n].t
            /\ Valid(l) => l.generated <= (l.log[n].t - l.created) \div l.interval

NoDoubleCountingWitness ==
    \E i \in DOMAIN heap :
        LET l == heap[i]
            n == Len(l.log)
        IN /\ Valid(l) /\ ~l.mu /\ n >= 3
           /\ l.created < l.log[1].t
           /\ l.log[1].t < l.log[n].t
           /\ CountRes(l.log, "false") >= 1
           /\ l.generated >= 2
           /\ l.generated = (l.log[n].t - l.created) \div l.interval

\* goroutine p is between Lock and Unlock of an Allow call
InAllow(p) == pc[p] \in {"now", "refill", "check", "take"}

\* the limiter that n calls of Allow made one after the other, each a
\* whole call, leave when they read the clock at the times of l's first n
\* decisions
RECURSIVE Serial(_, _)
Serial(l, n) ==
    IF n = 0 THEN NewRateLimiter(l.max, l.interval, l.created)
    ELSE Allow(Serial(l, n - 1), l.log[n].t).l

\* C15: at most one goroutine at a time is between Lock and Unlock of a
\* limiter, and the results and the state any concurrent execution leaves
\* are those of the same calls made one after the other in some order
\* whose clock reads do not decrease.
AtomicAdmission ==
    \A i \in DOMAIN heap :
        LET l == heap[i]
            inside == {p \in Procs : InAllow(p) /\ rl[p] = i}
        IN /\ Cardinality(inside) <= 1
           /\ l.mu <=> inside # {}
           /\ \A n \in 2..Len(l.log) : l.log[n-1].t <= l.log[n].t
           /\ ~l.mu => l = Serial(l, Len(l.log))

AtomicAdmissionWitness ==
    \E i \in DOMAIN heap : \E p, q \in Procs :
        LET l == heap[i] IN
        /\ rl[p] = i /\ rl[q] = i
        /\ pc[p] = "lock" /\ pc[q] = "check"
        /\ now[q] > l.created
        /\ Len(l.log) >= 2
        /\ CountRes(l.log, "true") >= 1
        /\ CountRes(l.log, "false") >= 1

\* ---- properties of the client's request path ----

\* C5: when Allow returns false to request, the call performs no HTTP
\* request and request returns RateLimitExceeded at once.
GateOnDenial ==
    \A p \in Procs :
        allowed[p] = "false" =>
            /\ sent[p] = 0
            /\ pc[p] = "done"
            /\ req[p] = [status |-> 0, err |-> RateLimitExceeded]

GateOnDenialWitness ==
    \E p \in Procs :
        /\ allowed[p] = "false" /\ pc[p] = "done" /\ sent[p] = 0
        /\ rateLimiter # Nil /\ Valid(heap[rateLimiter])
        /\ CountRes(heap[rateLimiter].log, "true") >= 1

\* C6: every API method whose call the limiter denied returns the
\* RateLimitExceeded error value itself.
DenialReturnsRateLimitExceeded ==
    \A p \in Procs :
        (pc[p] = "done" /\ allowed[p] = "false") => ret[p] = RateLimitExceeded

\* C7: no limiter with capacity < 1 or refillInterval <= 0 is ever
\* created.
ConstructionContract ==
    \A i \in DOMAIN heap : heap[i].max >= 1 /\ heap[i].interval > 0

\* C8: while Client.RateLimiter was never called, every call that reaches
\* request goes on to the HTTP request, and request never returns
\* RateLimitExceeded.
UnlimitedMode ==
    Len(heap) = 0 =>
        \A p \in Procs :
            /\ allowed[p] = "none"
            /\ req[p].err # RateLimitExceeded
            /\ pc[p] \in {"idle", "send", "done"}
            /\ (pc[p] = "done" /\ ret[p] # ArgumentError(mode[p])) => sent[p] = 1

UnlimitedModeWitness ==
    /\ Len(heap) = 0
    /\ calls = MaxApiCalls
    /\ \E p \in Procs : pc[p] = "done" /\ sent[p] = 1 /\ ret[p] = NoError

\* C16: a call issues at most one HTTP request, and the HTTP requests
\* of the calls that went through a limiter number at most the calls of
\* Allow on it that returned true.
ExactlyOnce ==
    /\ \A p \in Procs : sent[p] <= 1
    /\ \A i \in DOMAIN heap :
           heap[i].requests <= CountRes(heap[i].log, "true")

ExactlyOnceWitness ==
    \E i \in DOMAIN heap : \E p \in Procs :
        LET l == heap[i] IN
        /\ l.requests >= 1
        /\ l.requests = CountRes(l.log, "true")
        /\ CountRes(l.log, "false") >= 1
        /\ pc[p] = "done" /\ allowed[p] = "false" /\ sent[p] = 0

\* C18: the tokens of a limiter are those its last call of Allow left:
\* whatever the HTTP request of an admitted call comes to, the token it
\* took is not given back.
TokenStaysConsumed ==
    \A i \in DOMAIN heap :
        LET l == heap[i] IN
        Len(l.log) >= 1 => l.tokens = l.log[Len(l.log)].post

TokenStaysConsumedWitness ==
    \E p \in Procs :
        /\ pc[p] = "done" /\ allowed[p] = "true" /\ sent[p] = 1
        /\ req[p].err = TransportError \/ req[p].status = 500
        /\ rl[p] # Nil
        /\ heap[rl[p]].max = 1
        /\ heap[rl[p]].tokens = 0

\* C19: a call that returns the error for missing arguments has not called
\* Allow: the step leaves every limiter, its tokens and lastRefill, as it
\* was.
ValidationPrecedesGate ==
    [][\A p \in Procs :
          (pc[p] = "idle" /\ pc'[p] = "done" /\ ret'[p] = ArgumentError(mode'[p])) =>
              (heap' = heap /\ allowed'[p] = "none")]_vars

ValidationPrecedesGateWitness ==
    \E p \in Procs :
        /\ pc[p] = "done" /\ ret[p] = ArgumentError(mode[p])
        /\ rateLimiter # Nil
        /\ Valid(heap[rateLimiter])
        /\ Len(heap[rateLimiter].log) = 1
        /\ heap[rateLimiter].last = heap[rateLimiter].log[1].t
        /\ heap[rateLimiter].last < clock

\* C20: every call of Client.RateLimiter(max, interval) makes a new
\* limiter with tokens = max the client's limiter and leaves the limiter
\* before it alone; the first max calls made at once on the new limiter
\* are admitted, whatever the limiter before it had left.
ReconfigurationResets ==
    /\ rateLimiter = Len(heap)
    /\ \A i \in DOMAIN heap :
        LET l == heap[i] IN
        /\ Len(l.log) = 0 => (l.tokens = l.max /\ l.last = l.created)
        /\ i < Len(heap) =>
               \A n \in 1..Len(l.log) : l.log[n].t <= heap[i+1].created
        /\ l.interval # 0 =>
               \A n \in 1..Len(l.log) :
                   (l.log[1].t = l.created /\ Immediate(l, 0, n) /\ n <= l.max) =>
                       l.log[n].res = "true"

ReconfigurationResetsWitness ==
    /\ Len(heap) = 2
    /\ heap[1].max = 1 /\ heap[1].tokens = 0
    /\ CountRes(heap[1].log, "true") = 1
    /\ CountRes(heap[1].log, "false") = 1
    /\ heap[2].max = 1 /\ heap[2].interval # 0
    /\ heap[2].created = heap[1].log[2].t
    /\ Len(heap[2].log) = 1
    /\ heap[2].log[1].t = heap[2].created
    /\ heap[2].log[1].res = "true"

====
